---- MODULE Spec2Model ----
(***************************************************************************)
(* Model of the Users admin page, src/pages/dashboard/csms/users.tsx.      *)
(*                                                                         *)
(* The component holds six pieces of React state (users, newUser,          *)
(* editUser, showForm, searchQuery, sortOrder), derives the displayed list *)
(* filteredUser from them on every render, and runs four asynchronous      *)
(* handlers (fetchUsers, createUser, updateUser, deleteUser).  Each        *)
(* handler is split at its await: the part before the await issues the     *)
(* request, the part after it is a completion action that runs when the    *)
(* response (or the error) is delivered.                                   *)
(*                                                                         *)
(* Strings are sequences of one-character strings, so that toLowerCase,    *)
(* includes and localeCompare are computed character by character.         *)
(***************************************************************************)
EXTENDS Integers, Sequences, FiniteSets, TLC

VARIABLES
  users,        \* useState<User[]>: the local copy of the collection
  newUser,      \* useState<User>: the draft of the add form
  editUser,     \* useState<User | null>: the record of the edit form
  showForm,     \* useState(false): the form is rendered instead of the list
  searchQuery,  \* useState(''): the text of the search input
  sortOrder,    \* useState({field, order})
  mounted,      \* the effect of useEffect(..., []) has run
  pushed,       \* the routes given to router.push, in order
  net,          \* every request issued so far, with its progress
  db,           \* the collection held by the backend
  nextId,       \* the id the backend gives to the next created record
  event         \* the event handled by the last step

vars == <<users, newUser, editUser, showForm, searchQuery, sortOrder,
          mounted, pushed, net, db, nextId, event>>

\* the React state of the component
viewState == <<users, newUser, editUser, showForm, searchQuery, sortOrder>>

(***************************************************************************)
(* Bounds.                                                                 *)
(***************************************************************************)
\* requests the page issues in one run (mount, mutations and refreshes)
MaxRequests == 3
\* length of the fetched list in the specification of the derived view
MaxUsers == 3

(***************************************************************************)
(* Strings.                                                                *)
(***************************************************************************)
Chars == {"a", "A", "b", "B", "7"}

LowerChar(c) == IF c = "A" THEN "a" ELSE IF c = "B" THEN "b" ELSE c

\* String.prototype.toLowerCase
toLowerCase(s) == [i \in 1..Len(s) |-> LowerChar(s[i])]

\* String.prototype.includes
includes(s, q) ==
  \E i \in 0..(Len(s) - Len(q)) : SubSeq(s, i + 1, i + Len(q)) = q

\* collation weights of String.prototype.localeCompare: the letter decides
\* first (digits before letters), the case only between strings that are
\* equal letter for letter (lower case first)
Primary(c) == IF c = "7" THEN 0 ELSE IF LowerChar(c) = "a" THEN 1 ELSE 2
Tertiary(c) == IF c = LowerChar(c) THEN 0 ELSE 1

RECURSIVE PrimaryCmp(_, _)
PrimaryCmp(s, t) ==
  IF s = <<>> /\ t = <<>> THEN 0
  ELSE IF s = <<>> THEN -1
  ELSE IF t = <<>> THEN 1
  ELSE IF Primary(Head(s)) < Primary(Head(t)) THEN -1
  ELSE IF Primary(Head(s)) > Primary(Head(t)) THEN 1
  ELSE PrimaryCmp(Tail(s), Tail(t))

RECURSIVE TertiaryCmp(_, _)
TertiaryCmp(s, t) ==
  IF s = <<>> /\ t = <<>> THEN 0
  ELSE IF s = <<>> THEN -1
  ELSE IF t = <<>> THEN 1
  ELSE IF Tertiary(Head(s)) < Tertiary(Head(t)) THEN -1
  ELSE IF Tertiary(Head(s)) > Tertiary(Head(t)) THEN 1
  ELSE TertiaryCmp(Tail(s), Tail(t))

\* String.prototype.localeCompare: negative, zero or positive
localeCompare(s, t) ==
  IF PrimaryCmp(s, t) # 0 THEN PrimaryCmp(s, t) ELSE TertiaryCmp(s, t)

\* String.prototype.split on a sequence of tokens
split(s, sep) == SelectSeq(s, LAMBDA tok : tok # sep)

(***************************************************************************)
(* Records.                                                                *)
(***************************************************************************)
\* the value of useState<User>(...) for newUser, and of both resets
EmptyUser ==
  [id |-> 0, fullName |-> <<>>, mobileNumber |-> <<>>, email |-> <<>>,
   roles |-> <<>>]

\* User | null: null is the empty sequence, a record u is <<u>>
NULL == <<>>
Some(u) == <<u>>

StringFields == {"fullName", "mobileNumber", "email", "roles"}
NumberFields == {"id"}

(***************************************************************************)
(* The derived view.                                                       *)
(***************************************************************************)
\* filterFn without the toLowerCase of the query
filterFnCaseSensitive(user, q) ==
  \/ includes(toLowerCase(user.fullName), q)
  \/ includes(toLowerCase(user.email), q)

\* the predicate given to users.filter
filterFn(user, q) ==
  LET query == toLowerCase(q)
  IN  \/ includes(toLowerCase(user.fullName), query)
      \/ includes(toLowerCase(user.email), query)

\* compareFn with the operands of the descending branch not swapped
compareFnUnswapped(a, b, so) ==
  LET field == so.field
  IN  IF field \in StringFields THEN localeCompare(a[field], b[field])
      ELSE IF field \in NumberFields THEN a[field] - b[field]
      ELSE 0

\* the comparator given to .sort
compareFn(a, b, so) ==
  LET field == so.field
  IN  IF field \in StringFields
      THEN IF so.order = "asc"
           THEN localeCompare(a[field], b[field])
           ELSE localeCompare(b[field], a[field])
      ELSE IF field \in NumberFields
      THEN IF so.order = "asc" THEN a[field] - b[field]
           ELSE b[field] - a[field]
      ELSE 0

\* insertion of x behind every element that does not compare greater
RECURSIVE insertSorted(_, _, _)
insertSorted(x, arr, so) ==
  IF arr = <<>> THEN <<x>>
  ELSE IF compareFn(Head(arr), x, so) > 0 THEN <<x>> \o arr
  ELSE <<Head(arr)>> \o insertSorted(x, Tail(arr), so)

\* Array.prototype.sort with the comparator: a stable sort
RECURSIVE sort(_, _)
sort(arr, so) ==
  IF arr = <<>> THEN <<>>
  ELSE insertSorted(arr[Len(arr)], sort(SubSeq(arr, 1, Len(arr) - 1), so), so)

\* users.filter(...)
filter(arr, q) == SelectSeq(arr, LAMBDA user : filterFn(user, q))

\* the list the page renders
filteredUser == sort(filter(users, searchQuery), sortOrder)

(***************************************************************************)
(* Requests.                                                               *)
(***************************************************************************)
apiUrl == "/users"
NoId == -1
NoBody == <<>>
NoData == <<>>

\* the statuses a request settles with: 200, an error status of the
\* backend, or no response at all (error.response is undefined)
NetworkError == 0
FailStatuses == {401, 500, NetworkError}
Statuses == {200} \cup FailStatuses

\* a request as handed to the Axios client; cause is the request whose
\* completion issued it, 0 for a request issued by a click or by the mount
Request(method, id, body, cause) ==
  [method |-> method, url |-> [base |-> apiUrl, id |-> id], body |-> body,
   cause |-> cause, stage |-> "sent", data |-> NoData]

\* the awaited promise of request r has settled with this status, resolved
\* or rejected, and the rest of its handler has run
settle(n, r, status) ==
  [n EXCEPT ![r].stage = IF status = 200 THEN "resolved" ELSE "rejected"]

Settled(n, r) == n[r].stage \in {"resolved", "rejected"}

\* the promise of request r can settle with this status: it resolves with
\* the response of the backend, or it is rejected with an error
Settles(r, method, status) ==
  /\ r \in 1..Len(net) /\ net[r].method = method
  /\ \/ status = 200 /\ net[r].stage = "answered"
     \/ status \in FailStatuses /\ net[r].stage = "sent"

Succeeded(n, r) == n[r].stage = "resolved"

\* the mutations whose handler has not finished: each may still refresh
Unsettled ==
  {r \in 1..Len(net) : net[r].method # "GET" /\ ~Settled(net, r)}

\* room for k more requests besides the refreshes still to come
Room(k) == Len(net) + Cardinality(Unsettled) + k <= MaxRequests

(***************************************************************************)
(* fetchUsers.                                                             *)
(***************************************************************************)
\* api.get(apiUrl), up to the await
fetchUsers(n, cause) == Append(n, Request("GET", NoId, NoBody, cause))

\* fetchUsersSettled with the redirect on every error
fetchUsersSettledAnyError(r, status) ==
  /\ Settles(r, "GET", status)
  /\ net' = settle(net, r, status)
  /\ IF status = 200
     THEN users' = net[r].data /\ pushed' = pushed
     ELSE users' = users /\ pushed' = Append(pushed, "/login")
  /\ UNCHANGED <<newUser, editUser, showForm, searchQuery, sortOrder,
                 mounted, db, nextId>>

\* fetchUsersSettled with a guard that drops the response of every GET but
\* the one issued last
fetchUsersSettledLatestOnly(r, status) ==
  /\ Settles(r, "GET", status)
  /\ net' = settle(net, r, status)
  /\ IF status = 200
     THEN /\ users' = IF \A g \in (r + 1)..Len(net) : net[g].method # "GET"
                      THEN net[r].data ELSE users
          /\ pushed' = pushed
     ELSE /\ users' = users
          /\ pushed' = IF status = 401 THEN Append(pushed, "/login")
                        ELSE pushed
  /\ UNCHANGED <<newUser, editUser, showForm, searchQuery, sortOrder,
                 mounted, db, nextId>>

\* fetchUsersSettled with the GET issued again after a failure other than 401
fetchUsersSettledRetries(r, status) ==
  /\ Settles(r, "GET", status)
  /\ net' = IF status \in FailStatuses \ {401}
            THEN fetchUsers(settle(net, r, status), net[r].cause)
            ELSE settle(net, r, status)
  /\ IF status = 200
     THEN users' = net[r].data /\ pushed' = pushed
     ELSE /\ users' = users
          /\ pushed' = IF status = 401 THEN Append(pushed, "/login")
                        ELSE pushed
  /\ UNCHANGED <<newUser, editUser, showForm, searchQuery, sortOrder,
                 mounted, db, nextId>>

\* the rest of fetchUsers: setUsers on success, the redirect on a 401
fetchUsersSettled(r, status) ==
  /\ Settles(r, "GET", status)
  /\ net' = settle(net, r, status)
  /\ IF status = 200
     THEN users' = net[r].data /\ pushed' = pushed
     ELSE /\ users' = users
          /\ pushed' = IF status = 401 THEN Append(pushed, "/login")
                        ELSE pushed
  /\ UNCHANGED <<newUser, editUser, showForm, searchQuery, sortOrder,
                 mounted, db, nextId>>

\* useEffect(() => { fetchUsers(); }, [])
mountEffect ==
  /\ ~mounted
  /\ mounted' = TRUE
  /\ net' = fetchUsers(net, 0)
  /\ UNCHANGED <<users, newUser, editUser, showForm, searchQuery, sortOrder,
                 pushed, db, nextId>>

(***************************************************************************)
(* createUser, updateUser, deleteUser.                                     *)
(***************************************************************************)
\* api.post(apiUrl, newUser), up to the await
createUser ==
  /\ net' = Append(net, Request("POST", NoId, newUser, 0))
  /\ UNCHANGED <<users, newUser, editUser, showForm, searchQuery, sortOrder,
                 mounted, pushed, db, nextId>>

\* createUserSettled without the reset of the draft
createUserSettledKeepsDraft(r, status) ==
  /\ Settles(r, "POST", status)
  /\ IF status = 200
     THEN /\ net' = fetchUsers(settle(net, r, status), r)
          /\ showForm' = FALSE
     ELSE /\ net' = settle(net, r, status)
          /\ UNCHANGED showForm
  /\ UNCHANGED <<users, newUser, editUser, searchQuery, sortOrder, mounted,
                 pushed, db, nextId>>

\* createUserSettled with the reset and the closing moved behind the catch
createUserSettledAlwaysCloses(r, status) ==
  /\ Settles(r, "POST", status)
  /\ newUser' = EmptyUser
  /\ showForm' = FALSE
  /\ IF status = 200
     THEN net' = fetchUsers(settle(net, r, status), r)
     ELSE net' = settle(net, r, status)
  /\ UNCHANGED <<users, editUser, searchQuery, sortOrder, mounted, pushed,
                 db, nextId>>

\* the rest of createUser
createUserSettled(r, status) ==
  /\ Settles(r, "POST", status)
  /\ IF status = 200
     THEN /\ newUser' = EmptyUser
          /\ net' = fetchUsers(settle(net, r, status), r)
          /\ showForm' = FALSE
     ELSE /\ net' = settle(net, r, status)
          /\ UNCHANGED <<newUser, showForm>>
  /\ UNCHANGED <<users, editUser, searchQuery, sortOrder, mounted, pushed,
                 db, nextId>>

\* if (editUser) api.put(`${apiUrl}/${editUser.id}`, editUser), up to the await
updateUser ==
  /\ IF editUser # NULL
     THEN net' = Append(net, Request("PUT", editUser[1].id, editUser[1], 0))
     ELSE net' = net
  /\ UNCHANGED <<users, newUser, editUser, showForm, searchQuery, sortOrder,
                 mounted, pushed, db, nextId>>

\* updateUserSettled without the reset of the edit state
updateUserSettledKeepsEdit(r, status) ==
  /\ Settles(r, "PUT", status)
  /\ IF status = 200
     THEN /\ net' = fetchUsers(settle(net, r, status), r)
          /\ showForm' = FALSE
     ELSE /\ net' = settle(net, r, status)
          /\ UNCHANGED showForm
  /\ UNCHANGED <<users, newUser, editUser, searchQuery, sortOrder, mounted,
                 pushed, db, nextId>>

\* the rest of updateUser
updateUserSettled(r, status) ==
  /\ Settles(r, "PUT", status)
  /\ IF status = 200
     THEN /\ editUser' = NULL
          /\ net' = fetchUsers(settle(net, r, status), r)
          /\ showForm' = FALSE
     ELSE /\ net' = settle(net, r, status)
          /\ UNCHANGED <<editUser, showForm>>
  /\ UNCHANGED <<users, newUser, searchQuery, sortOrder, mounted, pushed,
                 db, nextId>>

\* api.delete(`${apiUrl}/${id}`), up to the await
deleteUser(id) ==
  /\ net' = Append(net, Request("DELETE", id, NoBody, 0))
  /\ UNCHANGED <<users, newUser, editUser, showForm, searchQuery, sortOrder,
                 mounted, pushed, db, nextId>>

\* deleteUserSettled with the refresh moved behind the catch
deleteUserSettledAlwaysRefreshes(r, status) ==
  /\ Settles(r, "DELETE", status)
  /\ net' = fetchUsers(settle(net, r, status), r)
  /\ UNCHANGED <<users, newUser, editUser, showForm, searchQuery, sortOrder,
                 mounted, pushed, db, nextId>>

\* the rest of deleteUser
deleteUserSettled(r, status) ==
  /\ Settles(r, "DELETE", status)
  /\ IF status = 200
     THEN net' = fetchUsers(settle(net, r, status), r)
     ELSE net' = settle(net, r, status)
  /\ UNCHANGED <<users, newUser, editUser, showForm, searchQuery, sortOrder,
                 mounted, pushed, db, nextId>>

(***************************************************************************)
(* The click and change handlers.                                          *)
(***************************************************************************)
\* handleEditClick with the clicked record also copied into the draft
handleEditClickFillsDraft(user) ==
  /\ editUser' = Some(user)
  /\ newUser' = user
  /\ showForm' = TRUE
  /\ UNCHANGED <<users, searchQuery, sortOrder, mounted, pushed, net, db,
                 nextId>>

handleEditClick(user) ==
  /\ editUser' = Some(user)
  /\ showForm' = TRUE
  /\ UNCHANGED <<users, newUser, searchQuery, sortOrder, mounted, pushed,
                 net, db, nextId>>

\* handleAddClick without the reset of the edit state
handleAddClickKeepsEdit ==
  /\ showForm' = TRUE
  /\ UNCHANGED <<users, newUser, editUser, searchQuery, sortOrder, mounted,
                 pushed, net, db, nextId>>

handleAddClick ==
  /\ editUser' = NULL
  /\ showForm' = TRUE
  /\ UNCHANGED <<users, newUser, searchQuery, sortOrder, mounted, pushed,
                 net, db, nextId>>

\* handleCancelClick without the reset of the draft
handleCancelClickKeepsDraft ==
  /\ editUser' = NULL
  /\ showForm' = FALSE
  /\ UNCHANGED <<users, newUser, searchQuery, sortOrder, mounted, pushed,
                 net, db, nextId>>

handleCancelClick ==
  /\ editUser' = NULL
  /\ newUser' = EmptyUser
  /\ showForm' = FALSE
  /\ UNCHANGED <<users, searchQuery, sortOrder, mounted, pushed, net, db,
                 nextId>>

\* handleSearchChange with the list fetched again for every query
handleSearchChangeFetches(value) ==
  /\ searchQuery' = value
  /\ net' = fetchUsers(net, 0)
  /\ UNCHANGED <<users, newUser, editUser, showForm, sortOrder, mounted,
                 pushed, db, nextId>>

handleSearchChange(value) ==
  /\ searchQuery' = value
  /\ UNCHANGED <<users, newUser, editUser, showForm, sortOrder, mounted,
                 pushed, net, db, nextId>>

handleSortChange(value) ==
  /\ LET parts == split(value, "-")
     IN  sortOrder' = [field |-> parts[1], order |-> parts[2]]
  /\ UNCHANGED <<users, newUser, editUser, showForm, searchQuery, mounted,
                 pushed, net, db, nextId>>

\* onChangeField with the edit copy rebuilt from the inputs of the form,
\* which have no field for the roles
onChangeFieldDropsRoles(field, value) ==
  /\ IF editUser # NULL
     THEN /\ editUser' = Some([editUser[1] EXCEPT ![field] = value,
                                                  !.roles = <<>>])
          /\ newUser' = newUser
     ELSE /\ newUser' = [newUser EXCEPT ![field] = value]
          /\ editUser' = editUser
  /\ UNCHANGED <<users, showForm, searchQuery, sortOrder, mounted, pushed,
                 net, db, nextId>>

\* the onChange of the three inputs of the form
onChangeField(field, value) ==
  /\ IF editUser # NULL
     THEN /\ editUser' = Some([editUser[1] EXCEPT ![field] = value])
          /\ newUser' = newUser
     ELSE /\ newUser' = [newUser EXCEPT ![field] = value]
          /\ editUser' = editUser
  /\ UNCHANGED <<users, showForm, searchQuery, sortOrder, mounted, pushed,
                 net, db, nextId>>

\* what the form renders: its title, the label of its submit button and
\* the values of its inputs
formTitle == IF editUser # NULL THEN "Edit User" ELSE "Add New User"
submitLabel == IF editUser # NULL THEN "Update" ELSE "Create"
inputValue(field) ==
  IF editUser # NULL THEN editUser[1][field] ELSE newUser[field]

\* onClick={editUser ? updateUser : createUser}
submitClick == IF editUser # NULL THEN updateUser ELSE createUser

(***************************************************************************)
(* The backend: the REST resource /users.                                  *)
(***************************************************************************)
Ids(coll) == {coll[i].id : i \in 1..Len(coll)}

\* POST /users: the record is stored under a fresh id
stored(coll, body, id) ==
  Append(coll, [id |-> id, fullName |-> body.fullName,
                mobileNumber |-> body.mobileNumber, email |-> body.email,
                roles |-> body.roles])

\* PUT /users/{id}: the record with that id is replaced
replaced(coll, id, body) ==
  [i \in 1..Len(coll) |->
     IF coll[i].id = id THEN [body EXCEPT !.id = id] ELSE coll[i]]

\* DELETE /users/{id}: the record with that id is removed
removed(coll, id) == SelectSeq(coll, LAMBDA u : u.id # id)

\* the backend answers request r with a success
respondOk(r) ==
  /\ r \in 1..Len(net) /\ net[r].stage = "sent"
  /\ net[r].method \in {"PUT", "DELETE"} => net[r].url.id \in Ids(db)
  /\ net' = [net EXCEPT ![r].stage = "answered",
                        ![r].data = IF net[r].method = "GET" THEN db
                                    ELSE NoData]
  /\ db' = CASE net[r].method = "GET" -> db
              [] net[r].method = "POST" -> stored(db, net[r].body, nextId)
              [] net[r].method = "PUT" ->
                   replaced(db, net[r].url.id, net[r].body)
              [] net[r].method = "DELETE" -> removed(db, net[r].url.id)
  /\ nextId' = IF net[r].method = "POST" THEN nextId + 1 ELSE nextId
  /\ UNCHANGED <<users, newUser, editUser, showForm, searchQuery, sortOrder,
                 mounted, pushed>>

(***************************************************************************)
(* Inputs.                                                                 *)
(***************************************************************************)
\* what is typed into the inputs of the form
Typed ==
  [fullName |-> {<<"a">>},
   email |-> {<<"b">>},
   mobileNumber |-> {<<"7">>}]

\* what is typed into the search input
Queries == {<<>>, <<"B">>}

\* the values of the options of the sort dropdown
SortOptions ==
  {<<"fullName", "-", "asc">>, <<"fullName", "-", "desc">>,
   <<"email", "-", "asc">>, <<"email", "-", "desc">>}

\* the collections the backend holds when the page is opened
Seed(id, fullName, email) ==
  [id |-> id, fullName |-> fullName, mobileNumber |-> <<"7">>,
   email |-> email, roles |-> <<"A">>]

InitialCollections ==
  {<<>>, <<Seed(1, <<"b">>, <<"a", "B">>), Seed(2, <<"A">>, <<"a">>)>>}

(***************************************************************************)
(* The page: from its construction on.                                     *)
(***************************************************************************)
\* an event: its name and, for a click in the list, the row clicked, for a
\* promise that settles, the status
Ev(name, arg) == [name |-> name, arg |-> arg]

InitState ==
  /\ users = <<>>
  /\ newUser = EmptyUser
  /\ editUser = NULL
  /\ showForm = FALSE
  /\ searchQuery = <<>>
  /\ sortOrder = [field |-> "fullName", order |-> "asc"]
  /\ pushed = <<>>
  /\ net = <<>>
  /\ event = Ev("construct", 0)

Init ==
  /\ InitState
  /\ mounted = FALSE
  /\ db \in InitialCollections
  /\ nextId = Len(db) + 1

\* the page is on screen: the effect has run and no redirect has happened.
\* After router.push('/login') the page is left, so no click and no change
\* reaches it any more; the promises still in flight settle as before.
OnPage == mounted /\ pushed = <<>>

Mount == mountEffect /\ event' = Ev("mount", 0)

Add == OnPage /\ ~showForm /\ handleAddClick /\ event' = Ev("add", 0)

Edit ==
  /\ OnPage /\ ~showForm
  /\ \E i \in 1..Len(filteredUser) :
       handleEditClick(filteredUser[i]) /\ event' = Ev("edit", i)

Delete ==
  /\ OnPage /\ ~showForm /\ Room(2)
  /\ \E i \in 1..Len(filteredUser) :
       deleteUser(filteredUser[i].id) /\ event' = Ev("delete", i)

Search ==
  /\ OnPage /\ ~showForm
  /\ \E value \in Queries : handleSearchChange(value)
  /\ event' = Ev("search", 0)

Sort ==
  /\ OnPage /\ ~showForm
  /\ \E value \in SortOptions : handleSortChange(value)
  /\ event' = Ev("sort", 0)

Type ==
  /\ OnPage /\ showForm
  /\ \E field \in DOMAIN Typed :
       \E value \in Typed[field] : onChangeField(field, value)
  /\ event' = Ev("type", 0)

Submit ==
  OnPage /\ showForm /\ Room(2) /\ submitClick /\ event' = Ev("submit", 0)

Cancel == OnPage /\ showForm /\ handleCancelClick /\ event' = Ev("cancel", 0)

RespondOk ==
  (\E r \in 1..Len(net) : respondOk(r)) /\ event' = Ev("respond", 0)

FetchSettled ==
  \E r \in 1..Len(net) : \E status \in Statuses :
    fetchUsersSettled(r, status) /\ event' = Ev("settle", status)

CreateSettled ==
  \E r \in 1..Len(net) : \E status \in Statuses :
    createUserSettled(r, status) /\ event' = Ev("settle", status)

UpdateSettled ==
  \E r \in 1..Len(net) : \E status \in Statuses :
    updateUserSettled(r, status) /\ event' = Ev("settle", status)

DeleteSettled ==
  \E r \in 1..Len(net) : \E status \in Statuses :
    deleteUserSettled(r, status) /\ event' = Ev("settle", status)

Next ==
  \/ Mount
  \/ Add
  \/ Edit
  \/ Delete
  \/ Search
  \/ Sort
  \/ Type
  \/ Submit
  \/ Cancel
  \/ RespondOk
  \/ FetchSettled
  \/ CreateSettled
  \/ UpdateSettled
  \/ DeleteSettled

\* the whole page
Spec == Init /\ [][Next]_vars

\* the page while the user leaves the search input and the sort dropdown
\* alone: the list is displayed whole, in the initial order
NextCrud ==
  \/ Mount
  \/ Add
  \/ Edit
  \/ Delete
  \/ Type
  \/ Submit
  \/ Cancel
  \/ RespondOk
  \/ FetchSettled
  \/ CreateSettled
  \/ UpdateSettled
  \/ DeleteSettled

SpecCrud == Init /\ [][NextCrud]_vars

\* updateUser called while the edit state is null, which no button of the
\* page does: the body of its if is skipped and the call returns
UpdateWithoutEdit ==
  OnPage /\ editUser = NULL /\ updateUser /\ event' = Ev("update", 0)

\* the whole page, with updateUser also called directly
NextCalls == Next \/ UpdateWithoutEdit

SpecCalls == Init /\ [][NextCalls]_vars

(***************************************************************************)
(* The derived view: the page after its first fetch has delivered a list,  *)
(* under every query and every sort order.                                 *)
(***************************************************************************)
ViewNames == {<<"a">>, <<"A">>, <<"a", "b">>, <<"B", "a">>}
ViewEmails == {<<"b">>, <<"a", "B">>}
ViewQueries ==
  {<<>>, <<"a">>, <<"B">>, <<"A", "b">>, <<"b", "a">>, <<"b", "b">>}

\* the collections of at most MaxUsers records, the ids in stored order
ViewCollections ==
  UNION {[1..n -> ViewNames \X ViewEmails] : n \in 0..MaxUsers}

Collection(c) == [i \in 1..Len(c) |-> Seed(i, c[i][1], c[i][2])]

InitView ==
  /\ \E c \in ViewCollections : db = Collection(c)
  /\ users = db
  /\ nextId = Len(db) + 1
  /\ mounted = TRUE
  /\ net = <<[Request("GET", NoId, NoBody, 0) EXCEPT
                !.stage = "resolved", !.data = db]>>
  /\ newUser = EmptyUser
  /\ editUser = NULL
  /\ showForm = FALSE
  /\ searchQuery = <<>>
  /\ sortOrder = [field |-> "fullName", order |-> "asc"]
  /\ pushed = <<>>
  /\ event = Ev("settle", 200)

SearchView ==
  /\ OnPage /\ ~showForm
  /\ \E value \in ViewQueries : handleSearchChange(value)
  /\ event' = Ev("search", 0)

NextView ==
  \/ SearchView
  \/ Sort

SpecView == InitView /\ [][NextView]_vars

(***************************************************************************)
(* Properties of the derived view.                                         *)
(***************************************************************************)
\* q occurs in s when the case of the letters is ignored
OccursIgnoringCase(q, s) ==
  \E k \in 0..(Len(s) - Len(q)) :
    \A m \in 1..Len(q) : LowerChar(s[k + m]) = LowerChar(q[m])

\* C1: a user of the local list is displayed if and only if the query,
\* ignoring case, occurs in its fullName or in its email; the empty query
\* keeps every user.
FilterContract ==
  LET shown == filteredUser
  IN  /\ \A i \in 1..Len(users) :
           (\E j \in 1..Len(shown) : shown[j] = users[i]) <=>
             \/ OccursIgnoringCase(searchQuery, users[i].fullName)
             \/ OccursIgnoringCase(searchQuery, users[i].email)
      /\ \A j \in 1..Len(shown) :
           \E i \in 1..Len(users) : users[i] = shown[j]
      /\ searchQuery = <<>> => Len(shown) = Len(users)

\* a query with a capital letter keeps one user and drops another
FilterWitness ==
  /\ event = Ev("search", 0)
  /\ searchQuery # toLowerCase(searchQuery)
  /\ Len(filteredUser) > 0
  /\ Len(filteredUser) < Len(users)

\* the position of a displayed user in the fetched list
Fetched(u) == CHOOSE i \in 1..Len(users) : users[i] = u

\* the order of the chosen field in the chosen direction
InOrder(a, b) ==
  IF sortOrder.order = "asc"
  THEN localeCompare(a[sortOrder.field], b[sortOrder.field]) <= 0
  ELSE localeCompare(a[sortOrder.field], b[sortOrder.field]) >= 0

\* C2: the displayed list is a permutation of the users that pass the
\* filter, ordered by the chosen field in the chosen direction, and users
\* whose chosen field is equal keep the order of the fetched list.
SortContract ==
  LET shown == filteredUser
      kept == filter(users, searchQuery)
  IN  /\ sortOrder.field \in {"fullName", "email"}
      /\ sortOrder.order \in {"asc", "desc"}
      /\ Len(shown) = Len(kept)
      /\ \A i \in 1..Len(kept) : \E j \in 1..Len(shown) : shown[j] = kept[i]
      /\ \A i, j \in 1..Len(shown) :
           i < j =>
             /\ InOrder(shown[i], shown[j])
             /\ shown[i][sortOrder.field] = shown[j][sortOrder.field]
                  => Fetched(shown[i]) < Fetched(shown[j])

\* a descending order that moves a user and keeps a tie in place
SortWitness ==
  LET shown == filteredUser
  IN  /\ event = Ev("sort", 0)
      /\ sortOrder.order = "desc"
      /\ Len(shown) = 3
      /\ shown # filter(users, searchQuery)
      /\ \E i \in 1..2 :
           shown[i][sortOrder.field] = shown[i + 1][sortOrder.field]

(***************************************************************************)
(* Properties of the handlers.                                             *)
(***************************************************************************)
\* the step settles request r: the rest of its handler runs in this step
Settling(r) == ~Settled(net, r) /\ Settled(net', r)

\* the step issues exactly one request, q, and touches no other request
IssuesOnly(q) == net' = Append(net, q)

\* the step settles r and issues exactly one request, a GET /users
SettlesAndRefreshes(r) ==
  net' = Append([net EXCEPT ![r].stage = "resolved"],
                Request("GET", NoId, NoBody, r))

\* the refreshes issued by the handler of request r
Refreshes(r) ==
  {g \in 1..Len(net) : net[g].method = "GET" /\ net[g].cause = r}

\* a refresh exists only for a mutation that has settled with a success,
\* and then exactly one
RefreshOnlyAfter(method) ==
  \A r \in 1..Len(net) :
    net[r].method = method =>
      /\ Cardinality(Refreshes(r)) = IF Succeeded(net, r) THEN 1 ELSE 0
      /\ \A g \in Refreshes(r) : g > r

\* what a step of the page has to satisfy for CreateContract
CreateStep ==
  /\ (event'.name = "submit" /\ editUser = NULL) =>
       /\ IssuesOnly(Request("POST", NoId, newUser, 0))
       /\ net'[Len(net')].url = [base |-> "/users", id |-> NoId]
  /\ \A r \in 1..Len(net) :
       (net[r].method = "POST" /\ Settling(r) /\ event'.arg = 200) =>
         /\ newUser' = EmptyUser
         /\ showForm' = FALSE
         /\ SettlesAndRefreshes(r)

\* C3: a click on Create issues exactly one request, a POST to /users with
\* the draft of that moment; when the POST settles with a success the draft
\* is reset, the form is closed and one GET /users is issued, and no refresh
\* of a POST exists before the POST has settled.
CreateContract == [][CreateStep]_vars /\ []RefreshOnlyAfter("POST")

\* a POST of a filled draft has settled and its refresh is on its way
CreateWitness ==
  /\ event.name = "settle"
  /\ \E r \in 1..Len(net) :
       /\ net[r].method = "POST" /\ Succeeded(net, r)
       /\ net[r].body.fullName # <<>>
       /\ Refreshes(r) = {Len(net)}
  /\ newUser = EmptyUser /\ ~showForm

\* C4: the body of every POST to /users is a user record without an id
\* field.
PostBodyWithoutId ==
  \A r \in 1..Len(net) :
    net[r].method = "POST" => "id" \notin DOMAIN net[r].body

\* what a step of the page has to satisfy for UpdateContract
UpdateStep ==
  /\ (event'.name = "submit" /\ editUser # NULL) =>
       /\ IssuesOnly(Request("PUT", editUser[1].id, editUser[1], 0))
       /\ net'[Len(net')].url = [base |-> "/users", id |-> editUser[1].id]
  /\ \A r \in 1..Len(net) :
       (net[r].method = "PUT" /\ Settling(r) /\ event'.arg = 200) =>
         /\ editUser' = NULL
         /\ showForm' = FALSE
         /\ SettlesAndRefreshes(r)

\* C5: a click on Update issues exactly one request, a PUT to /users/{id}
\* with the id and the record of the edit state; when the PUT settles with a
\* success the edit state is null, the form is closed and one GET /users is
\* issued, and no refresh of a PUT exists before the PUT has settled.
UpdateContract == [][UpdateStep]_vars /\ []RefreshOnlyAfter("PUT")

\* a PUT of a changed record has settled and its refresh is on its way
UpdateWitness ==
  /\ event.name = "settle"
  /\ \E r \in 1..Len(net) :
       /\ net[r].method = "PUT" /\ Succeeded(net, r)
       /\ \A i \in 1..Len(users) : users[i] # net[r].body
       /\ \E i \in 1..Len(users) : users[i].id = net[r].url.id
       /\ Refreshes(r) = {Len(net)}
  /\ editUser = NULL /\ ~showForm

\* what a step of the page has to satisfy for DeleteContract
DeleteStep ==
  /\ event'.name = "delete" =>
       /\ event'.arg \in 1..Len(filteredUser)
       /\ IssuesOnly(Request("DELETE", filteredUser[event'.arg].id, NoBody, 0))
       /\ net'[Len(net')].url =
            [base |-> "/users", id |-> filteredUser[event'.arg].id]
  /\ \A r \in 1..Len(net) :
       (net[r].method = "DELETE" /\ Settling(r)) =>
         IF event'.arg = 200
         THEN SettlesAndRefreshes(r)
         ELSE net' = [net EXCEPT ![r].stage = "rejected"]

\* C6: a click on Delete issues exactly one request, a DELETE to
\* /users/{id} with the id of the row clicked; a DELETE that succeeds is
\* followed by exactly one GET /users issued when it settles, a DELETE that
\* fails by none.
DeleteContract == [][DeleteStep]_vars /\ []RefreshOnlyAfter("DELETE")

\* a DELETE of the second row has settled and its refresh is on its way
DeleteWitness ==
  /\ event.name = "settle"
  /\ \E r \in 1..Len(net) :
       /\ net[r].method = "DELETE" /\ Succeeded(net, r)
       /\ Len(filteredUser) = 2 /\ filteredUser[2].id = net[r].url.id
       /\ users[2].id # net[r].url.id
       /\ Refreshes(r) = {Len(net)}

\* what a step of the page has to satisfy for RedirectContract
RedirectStep ==
  /\ pushed' # pushed <=>
       \E r \in 1..Len(net) :
         net[r].method = "GET" /\ Settling(r) /\ event'.arg = 401
  /\ pushed' # pushed => pushed' = Append(pushed, "/login")

\* C7: a step pushes a route if and only if it settles a GET /users that
\* failed with status 401, and the route is /login; a GET that fails
\* otherwise and a POST, PUT or DELETE that fails never navigate.
RedirectContract == [][RedirectStep]_vars

\* the refresh of a mutation has been refused with 401
RedirectWitness ==
  /\ pushed = <<"/login">>
  /\ event = Ev("settle", 401)
  /\ net[Len(net)].method = "GET" /\ net[Len(net)].cause # 0
  /\ net[Len(net)].stage = "rejected"

\* what a step of the page has to satisfy for FailureContract
FailureStep ==
  \A r \in 1..Len(net) :
    (Settling(r) /\ event'.arg # 200) =>
      /\ users' = users
      /\ newUser' = newUser
      /\ editUser' = editUser
      /\ showForm' = showForm

\* C8: the step that settles a failed request leaves the local list, the
\* draft, the edit state and the visibility of the form as they were.
FailureContract == [][FailureStep]_vars

\* a POST of a filled draft has failed and the form is still open, filled
FailureWitness ==
  /\ event.name = "settle"
  /\ net # <<>> /\ net[Len(net)].method = "POST"
  /\ net[Len(net)].stage = "rejected" /\ event.arg \in FailStatuses
  /\ showForm /\ newUser # EmptyUser /\ newUser = net[Len(net)].body
  /\ users # <<>>

\* what a step of the page has to satisfy for CancelContract
CancelStep ==
  event'.name = "cancel" =>
    /\ editUser' = NULL
    /\ newUser' = EmptyUser
    /\ showForm' = FALSE
    /\ net' = net
    /\ users' = users
    /\ searchQuery' = searchQuery
    /\ sortOrder' = sortOrder

\* C9: a click on Cancel sets the edit state to null, resets the draft,
\* closes the form, issues no request and leaves the local list, the query
\* and the sort order as they were.
CancelContract == [][CancelStep]_vars

\* a cancel while the POST of a draft is in flight, with a list, a query
\* and a sort order that are not the initial ones
CancelWitness ==
  /\ event.name = "cancel"
  /\ users # <<>> /\ searchQuery # <<>>
  /\ sortOrder # [field |-> "fullName", order |-> "asc"]
  /\ net[Len(net)].method = "POST" /\ ~Settled(net, Len(net))
  /\ net[Len(net)].body # EmptyUser

\* the form as rendered is the edit form of the record of the edit state
EditMode ==
  /\ editUser # NULL
  /\ formTitle = "Edit User" /\ submitLabel = "Update"
  /\ \A field \in DOMAIN Typed : inputValue(field) = editUser[1][field]

\* the form as rendered is the add form of the draft
AddMode ==
  /\ editUser = NULL
  /\ formTitle = "Add New User" /\ submitLabel = "Create"
  /\ \A field \in DOMAIN Typed : inputValue(field) = newUser[field]

\* what a step of the page has to satisfy for ModeContract
ModeStep ==
  /\ event'.name = "add" => editUser' = NULL /\ showForm'
  /\ event'.name = "edit" =>
       /\ event'.arg \in 1..Len(filteredUser)
       /\ editUser' = Some(filteredUser[event'.arg])
       /\ showForm'
  /\ event'.name = "submit" =>
       /\ showForm
       /\ Len(net') = Len(net) + 1
       /\ net' = Append(net, net'[Len(net')])
       /\ net'[Len(net')].method = IF AddMode THEN "POST" ELSE "PUT"

\* C10: a form that is shown is in exactly one of the two modes, the edit
\* mode when the edit state is not null; a click on Add opens the form with
\* the edit state null, a click on Edit opens it with the record of the row
\* clicked, and a click on the submit button issues one request, a POST in
\* add mode and a PUT in edit mode.
ModeContract ==
  /\ [][ModeStep]_vars
  /\ [](showForm => (EditMode /\ ~AddMode) \/ (AddMode /\ ~EditMode))

\* the edit form of a changed record has been submitted
ModeWitness ==
  /\ event.name = "submit"
  /\ showForm /\ EditMode
  /\ net[Len(net)].method = "PUT"
  /\ \A i \in 1..Len(users) : users[i] # editUser[1]

(***************************************************************************)
(* Properties of the local list and of the draft.                          *)
(***************************************************************************)
\* the GET requests that have settled with a success
ResolvedGets ==
  {g \in 1..Len(net) : net[g].method = "GET" /\ Succeeded(net, g)}

\* what a step of the page has to satisfy for LastResponseWins
LastResponseStep ==
  /\ users' # users =>
       \E r \in 1..Len(net) :
         net[r].method = "GET" /\ Settling(r) /\ event'.arg = 200
  /\ \A r \in 1..Len(net) :
       (net[r].method = "GET" /\ Settling(r) /\ event'.arg = 200) =>
         users' = net[r].data

\* C11: the local list is written only by the step that settles a
\* successful GET /users, which replaces it by the payload of that response
\* whatever the order in which the GETs were issued; so the list is the
\* payload of the response received last, and empty while none was received.
LastResponseWins ==
  /\ [][LastResponseStep]_vars
  /\ [](IF ResolvedGets = {} THEN users = <<>>
        ELSE \E g \in ResolvedGets : users = net[g].data)

\* the response of the first GET was received after the response of a
\* refresh with another payload, and the local list is the older payload
LastResponseWitness ==
  /\ event = Ev("settle", 200)
  /\ 1 \in ResolvedGets /\ users = net[1].data
  /\ \E g \in ResolvedGets : g > 1 /\ net[g].data # net[1].data

\* C12: the id of the draft is the placeholder 0 in every reachable state:
\* initially, after typing into the add form, after the reset that follows a
\* successful create and after cancel.
DraftIdZero == newUser.id = 0

\* a draft typed into the add form after an earlier create has succeeded
\* and reset the draft, while records with other ids are in the local list
DraftIdWitness ==
  /\ event.name = "type" /\ editUser = NULL
  /\ newUser # EmptyUser /\ newUser.id = 0
  /\ \E r \in 1..Len(net) : net[r].method = "POST" /\ Succeeded(net, r)
  /\ users # <<>>

\* what a step of the page has to satisfy for NoRetries
NoRetryStep ==
  /\ Len(net') \in {Len(net), Len(net) + 1}
  /\ \A r \in 1..Len(net) :
       /\ Settled(net, r) => net'[r] = net[r]
       /\ Settling(r) =>
            IF net[r].method # "GET" /\ event'.arg = 200
            THEN SettlesAndRefreshes(r)
            ELSE net' = settle(net, r, event'.arg)
  /\ Len(net') = Len(net) + 1 =>
       LET q == net'[Len(net')]
       IN  IF q.cause = 0
           THEN /\ event'.name \in {"mount", "submit", "delete"}
                /\ q.method = "GET" <=> event'.name = "mount"
           ELSE q.method = "GET" /\ Settling(q.cause)

\* C13: a step issues at most one request; the mount effect issues one GET
\* and a click one mutation; the step that settles a successful mutation
\* issues its one refresh, and the step that settles a GET or a failed
\* request issues nothing; a settled request is never touched again, so a
\* failed request has no successor and a handler ends with its request.
NoRetries ==
  /\ [][NoRetryStep]_vars
  /\ [](/\ Cardinality(Refreshes(0)) <= 1
        /\ \A r \in 1..Len(net) :
             /\ Cardinality(Refreshes(r)) <= 1
             /\ Refreshes(r) # {} =>
                  net[r].method # "GET" /\ Succeeded(net, r))

\* the first GET and a later mutation have both failed, nothing is in
\* flight and nothing was issued in their place
NoRetryWitness ==
  /\ event.name = "settle" /\ event.arg \in FailStatuses
  /\ Len(net) = 2 /\ pushed = <<>>
  /\ net[1].method = "GET" /\ net[1].stage = "rejected"
  /\ net[2].method # "GET" /\ net[2].stage = "rejected"

\* every request issued so far has succeeded and none is in flight, and at
\* least one of them was a mutation
Quiescent ==
  /\ \A r \in 1..Len(net) : Succeeded(net, r)
  /\ \E r \in 1..Len(net) : net[r].method # "GET"

\* C14: once every request has succeeded and none is in flight after a
\* mutation, the local list equals the collection of the backend, whatever
\* the order in which the responses arrived.
Converges == Quiescent => users = db

\* C15: in every reachable state, also while a POST or a PUT is in flight
\* and the form is cancelled and opened again, a form that is not shown
\* means no input in progress: the edit state is null and the draft is the
\* empty draft.
ClosedFormIsClean == ~showForm => (editUser = NULL /\ newUser = EmptyUser)

\* the records of the payloads that the local list has been set to
Listed ==
  UNION {{net[g].data[i] : i \in 1..Len(net[g].data)} : g \in ResolvedGets}

\* u carries the id and the roles of a record that was in the local list
FromList(u) == \E v \in Listed : v.id = u.id /\ v.roles = u.roles

\* what a step of the page has to satisfy for EditFrame
EditFrameStep ==
  /\ event'.name = "type" =>
       /\ users' = users
       /\ newUser'.id = newUser.id /\ newUser'.roles = newUser.roles
       /\ IF editUser = NULL THEN editUser' = NULL
          ELSE /\ editUser' # NULL /\ newUser' = newUser
               /\ editUser'[1].id = editUser[1].id
               /\ editUser'[1].roles = editUser[1].roles
  /\ event'.name = "edit" =>
       \E i \in 1..Len(users) : editUser' = Some(users[i])

\* C16: typing in the form leaves the local list, the id and the roles of
\* the edit copy and of the draft as they were; the edit copy is taken from
\* the local list, so it and every PUT carry the id and the roles of a
\* record that was in the list, with the PUT addressed to that id; and
\* every POST body has id 0 and no roles.
EditFrame ==
  /\ [][EditFrameStep]_vars
  /\ [](/\ editUser # NULL => FromList(editUser[1])
        /\ \A r \in 1..Len(net) :
             /\ net[r].method = "PUT" =>
                  net[r].url.id = net[r].body.id /\ FromList(net[r].body)
             /\ net[r].method = "POST" =>
                  net[r].body.id = 0 /\ net[r].body.roles = <<>>)

\* a PUT has just been issued for a record of the list with roles, whose
\* name was replaced in the form
EditFrameWitness ==
  /\ event.name = "submit"
  /\ net[Len(net)].method = "PUT" /\ net[Len(net)].body.roles # <<>>
  /\ \E i \in 1..Len(users) :
       /\ users[i].id = net[Len(net)].url.id
       /\ users[i].roles = net[Len(net)].body.roles
       /\ users[i].fullName # net[Len(net)].body.fullName

\* what a step of the page has to satisfy for OnlyCrudRequests
QuietStep ==
  /\ event'.name \in {"search", "sort", "add", "edit", "type"} =>
       net' = net /\ users' = users
  /\ event'.name = "update" =>
       /\ editUser = NULL
       /\ UNCHANGED <<users, newUser, editUser, showForm, searchQuery,
                      sortOrder, mounted, pushed, net, db, nextId>>
  /\ Len(net') > Len(net) =>
       \/ event'.name \in {"mount", "submit", "delete"}
       \/ /\ event' = Ev("settle", 200)
          /\ \E r \in 1..Len(net) : net[r].method # "GET" /\ Settling(r)

\* C17: a change of the search query or of the sort order, a click on Add
\* or on Edit and typing in the form issue no request and leave the local
\* list as it was; updateUser called with a null edit state issues no
\* request and changes nothing; a request is issued only by the mount
\* effect, by a click on Create, Update or Delete, and by the handler of
\* such a click when its mutation has succeeded.
OnlyCrudRequests == [][QuietStep]_vars

\* updateUser has just been called with a null edit state, after a search,
\* a change of the sort order, a click on Add and typing, and the only
\* request ever issued is the GET of the mount effect
QuietWitness ==
  /\ event.name = "update" /\ editUser = NULL
  /\ searchQuery # <<>> /\ sortOrder.order = "desc"
  /\ showForm /\ newUser # EmptyUser
  /\ Len(net) = 1 /\ users # <<>>

====
